---- MODULE Spec2Model ----
\* A model of the notebook "Describing Trends with GPT-3" (2022-03-gpt-trends):
\* one setup cell that loads the API credential, then eight cells that each build
\* a prompt, call openai.Completion.create once and print (part of) the response.
\* The kernel runs one cell at a time; after the setup cell the request cells may
\* be run in any order and any number of times (bounded by MaxRuns).
EXTENDS Integers, Sequences, FiniteSets, TLC

\* ---------------------------------------------------------------- bounds

\* How many cell runs (invocations) a behaviour holds.
MaxRuns == 2

\* The longest candidate list ("choices") the endpoint returns.
MaxChoices == 2

\* ------------------------------------------------------- program constants

\* Python's None.
None == "None"

\* execution_count of the cell that loads the credential.
SetupCell == 1

\* execution_count of the connectivity-test cell, which prints the whole response.
TestCell == 2

\* execution_count of the cell whose prompt holds no example pair.
ZeroShotCell == 3

\* execution_count of the first cell that puts day letters before the values.
DayLetterCell == 8

\* execution_count of the last code cell.
LastCell == 9

\* The cells that call the endpoint.
RequestCells == TestCell..LastCell

\* The cells that print response["choices"][0]["text"].
TrendCells == ZeroShotCell..LastCell

\* engine= of every call.
engine == "text-davinci-002"

\* temperature= of every call.
temperature == 0

\* max_tokens= of the connectivity test.
TestMaxTokens == 6

\* max_tokens= of every trend cell.
TrendMaxTokens == 36

\* ----------------------------------------------------------------- prompts

\* Cell 2: the connectivity test.
TestPrompt ==
    "Say this is a test"

\* ZeroShotPrompt with the last value of the series mistyped.
ZeroShotPromptTypo ==
    "Summarize the trend of the list of numbers 132, 329, 583, 743, 966, 1123, 1289 in one sentence"

\* Cell 3: the instruction with the series inside it, no examples.
ZeroShotPrompt ==
    "Summarize the trend of the list of numbers 132, 329, 583, 743, 966, 1123, 1298 in one sentence"

\* Cell 4: two examples, decreasing target.
Prompt4 ==
    "Summarize the trend of the list of numbers in one sentence\n" \o
    "\n" \o
    "Numbers: 132, 329, 583, 743, 966, 1123, 1298\n" \o
    "Trend: The numbers increase steadily from just over 100 to almost 1300.\n" \o
    "\n" \o
    "Numbers: 300, 323, 293, 313, 341, 301, 329\n" \o
    "Trend: The numbers fluctuate between 293 and 341.\n" \o
    "\n" \o
    "Numbers: 99, 97, 96, 90, 87, 83, 82\n" \o
    "Trend: \n"

\* Cell 5: two examples, target with an outlier.
Prompt5 ==
    "Summarize the trend of the list of numbers in one sentence\n" \o
    "\n" \o
    "Numbers: 132, 329, 583, 743, 966, 1123, 1298\n" \o
    "Trend: The numbers increase steadily from just over 100 to almost 1300.\n" \o
    "\n" \o
    "Numbers: 300, 323, 293, 313, 341, 301, 329\n" \o
    "Trend: The numbers fluctuate between 293 and 341.\n" \o
    "\n" \o
    "Numbers: 55, 54, 57, 5643, 56, 55, 54\n" \o
    "Trend: \n"

\* Cell 6: two examples, the first naming days.
Prompt6 ==
    "Summarize the trend of the list of numbers in one sentence\n" \o
    "\n" \o
    "Numbers: 132, 329, 583, 743, 966, 1123, 1298\n" \o
    "Trend: The numbers increase steadily from just over 100 on Monday to almost 1300 on Sunday.\n" \o
    "\n" \o
    "Numbers: 300, 323, 293, 313, 341, 301, 329\n" \o
    "Trend: The numbers fluctuate between 293 and 341.\n" \o
    "\n" \o
    "Numbers: 55, 54, 57, 5643, 56, 55, 54\n" \o
    "Trend: \n"

\* Cell 7: three examples naming days.
Prompt7 ==
    "Summarize the trend of the list of numbers in one sentence\n" \o
    "\n" \o
    "Numbers: 132, 329, 583, 743, 966, 1123, 1298\n" \o
    "Trend: The numbers increase steadily from just over 100 on Monday to almost 1300 on Sunday.\n" \o
    "\n" \o
    "Numbers: 300, 323, 293, 313, 341, 301, 329\n" \o
    "Trend: The numbers fluctuate between 293 and 341 all week.\n" \o
    "\n" \o
    "Numbers: 7, 8, 11, 9, 218, 8, 8\n" \o
    "Trend: The numbers fluctuate between 7 and 11 all week, wih one outlier at 218 on Friday.\n" \o
    "\n" \o
    "Numbers: 55, 54, 57, 5643, 56, 55, 54\n" \o
    "Trend: \n"

\* Prompt8 with the letters of the third and fourth day of the target swapped.
Prompt8Misaligned ==
    "Summarize the trend of the daily list of numbers in one sentence\n" \o
    "\n" \o
    "Numbers: M: 132, T: 329, W: 583, T: 743, F: 966, S: 1123, S: 1298\n" \o
    "Trend: The numbers increase steadily from just over 100 on Monday to almost 1300 on Sunday.\n" \o
    "\n" \o
    "Numbers: M: 300, T: 323, W: 293, T: 313, F: 341, S: 301, S: 329\n" \o
    "Trend: The numbers fluctuate between 293 and 341 all week.\n" \o
    "\n" \o
    "Numbers: M: 7, T: 8, W: 11, T: 9, F: 218, S: 8, S: 8\n" \o
    "Trend: The numbers fluctuate between 7 and 11 all week, wih one outlier at 218 on Friday.\n" \o
    "\n" \o
    "Numbers: M: 55, T: 54, T: 57, W: 5643, F: 56, S: 55, S: 54\n" \o
    "Trend: \n"

\* Cell 8: three examples, day letters before the values.
Prompt8 ==
    "Summarize the trend of the daily list of numbers in one sentence\n" \o
    "\n" \o
    "Numbers: M: 132, T: 329, W: 583, T: 743, F: 966, S: 1123, S: 1298\n" \o
    "Trend: The numbers increase steadily from just over 100 on Monday to almost 1300 on Sunday.\n" \o
    "\n" \o
    "Numbers: M: 300, T: 323, W: 293, T: 313, F: 341, S: 301, S: 329\n" \o
    "Trend: The numbers fluctuate between 293 and 341 all week.\n" \o
    "\n" \o
    "Numbers: M: 7, T: 8, W: 11, T: 9, F: 218, S: 8, S: 8\n" \o
    "Trend: The numbers fluctuate between 7 and 11 all week, wih one outlier at 218 on Friday.\n" \o
    "\n" \o
    "Numbers: M: 55, T: 54, W: 57, T: 5643, F: 56, S: 55, S: 54\n" \o
    "Trend: \n"

\* Cell 9: three examples, day letters, two-day dip.
Prompt9 ==
    "Summarize the trend of the daily list of numbers in one sentence\n" \o
    "\n" \o
    "Numbers: M: 132, T: 329, W: 583, T: 743, F: 966, S: 1123, S: 1298\n" \o
    "Trend: The numbers increase steadily from just over 100 on Monday to almost 1300 on Sunday.\n" \o
    "\n" \o
    "Numbers: M: 300, T: 323, W: 293, T: 313, F: 341, S: 301, S: 329\n" \o
    "Trend: The numbers fluctuate between 293 and 341 all week.\n" \o
    "\n" \o
    "Numbers: M: 7, T: 8, W: 11, T: 9, F: 218, S: 8, S: 8\n" \o
    "Trend: The numbers fluctuate between 7 and 11 all week, wih one outlier at 218 on Friday.\n" \o
    "\n" \o
    "Numbers: M: 37465, T: 52374, W: 39809, T: 30885, F: 44325, S: 230, S: 223\n" \o
    "Trend: \n"

\* The prompt= argument of cell c's call.
Prompt(c) ==
    CASE c = 2 -> TestPrompt
      [] c = 3 -> ZeroShotPrompt
      [] c = 4 -> Prompt4
      [] c = 5 -> Prompt5
      [] c = 6 -> Prompt6
      [] c = 7 -> Prompt7
      [] c = 8 -> Prompt8
      [] c = 9 -> Prompt9

\* MaxTokens with the connectivity test's limit kept for every cell.
MaxTokensAllTest(c) == TestMaxTokens

\* The max_tokens= argument of cell c's call.
MaxTokens(c) ==
    IF c = TestCell THEN TestMaxTokens ELSE TrendMaxTokens

\* The keyword arguments cell c hands to openai.Completion.create.
Request(c) ==
    [engine |-> engine, prompt |-> Prompt(c),
     temperature |-> temperature, max_tokens |-> MaxTokens(c)]

\* ---------------------------------------------------------- string helpers
\* (Python's str operations, as the properties and the variants below use them)

\* s[i], as a one-character string.
Char(s, i) == SubSeq(s, i, i)

\* s.startswith(t) and s.endswith(t).
StartsWith(s, t) == Len(t) <= Len(s) /\ SubSeq(s, 1, Len(t)) = t
EndsWith(s, t) == Len(t) <= Len(s) /\ SubSeq(s, Len(s) - Len(t) + 1, Len(s)) = t

\* t in s.
Contains(s, t) ==
    \E i \in 1..(Len(s) - Len(t) + 1) : SubSeq(s, i, i + Len(t) - 1) = t

\* The whitespace a prompt of the notebook can end with.
Whitespace == {" ", "\n", "\t", "\r"}

\* s.rstrip() of a prompt.
RECURSIVE RStrip(_)
RStrip(s) ==
    IF Len(s) > 0 /\ Char(s, Len(s)) \in Whitespace
    THEN RStrip(SubSeq(s, 1, Len(s) - 1))
    ELSE s

\* ------------------------------------------------------------- text values
\* A str the program receives or prints is the sequence of its Unicode code
\* points, as Python holds it: "\n\nThis" is <<10, 10, 84, 104, 105, 115>>.

\* ord(c) for the characters the literals of this module are written with:
\* tab, line break, form feed, carriage return, and space..tilde but the
\* grave accent.
Ord ==
    LET upto == " !\"#$%&'()*+,-./0123456789:;<=>?@ABCDEFGHIJKLMNOPQRSTUVWXYZ[\\]^_"
        from == "abcdefghijklmnopqrstuvwxyz{|}~"
    IN  [c \in {"\t", "\n", "\f", "\r"}
                 \cup {Char(upto, i) : i \in 1..Len(upto)}
                 \cup {Char(from, i) : i \in 1..Len(from)} |->
            CASE c = "\t" -> 9
              [] c = "\n" -> 10
              [] c = "\f" -> 12
              [] c = "\r" -> 13
              [] \E i \in 1..Len(upto) : Char(upto, i) = c ->
                     31 + (CHOOSE i \in 1..Len(upto) : Char(upto, i) = c)
              [] OTHER ->
                     96 + (CHOOSE i \in 1..Len(from) : Char(from, i) = c)]

\* The str a literal of this module denotes.
Codes(s) == [i \in 1..Len(s) |-> Ord[Char(s, i)]]

\* The code points str.strip() removes: those for which str.isspace() holds.
TextWhitespace ==
    (9..13) \cup (28..32) \cup {133, 160, 5760} \cup (8192..8202)
        \cup {8232, 8233, 8239, 8287, 12288}

\* t.lstrip(), t.rstrip() and t.strip() of a text.
RECURSIVE LStripText(_)
LStripText(t) ==
    IF Len(t) > 0 /\ t[1] \in TextWhitespace
    THEN LStripText(SubSeq(t, 2, Len(t)))
    ELSE t

RECURSIVE RStripText(_)
RStripText(t) ==
    IF Len(t) > 0 /\ t[Len(t)] \in TextWhitespace
    THEN RStripText(SubSeq(t, 1, Len(t) - 1))
    ELSE t

StripText(t) == RStripText(LStripText(t))

\* ------------------------------------------------------------ the endpoint

\* The recorded text of the connectivity test, leading line breaks included.
TestText == Codes("\n\nThis is a test")

\* Candidate texts the endpoint may return: two from the recorded outputs
\* (leading line breaks included) and one without surrounding whitespace that
\* holds a tab, double quotes, a backslash, a euro sign (U+20AC) and a chart
\* emoji (U+1F4C8).
Texts ==
    {TestText,
     Codes("\nThe numbers fluctuate between 54 and 57."),
     Codes("The\t\"trend\" is up\\down ") \o <<8364, 128200>>}

\* The candidate lists of length 0..MaxChoices.
TextSeqs == UNION {[1..n -> Texts] : n \in 0..MaxChoices}

\* The "finish_reason" the endpoint gives with a text: "length" for the
\* recorded text that max_tokens=6 cut off, "stop" for the others.
FinishReason(t) == IF t = TestText THEN Codes("length") ELSE Codes("stop")

\* The "choices" array carrying the texts ts: each candidate with its finish
\* reason, its index, no log-probabilities (no call asks for them) and its text.
Choices(ts) ==
    [i \in 1..Len(ts) |->
        [finish_reason |-> FinishReason(ts[i]), index |-> i - 1,
         logprobs |-> None, text |-> ts[i]]]

\* "created" of the recorded response (the model has no clock).
Created == 1648109397

\* str(n) of an integer.
RECURSIVE Decimal(_)
Decimal(n) ==
    IF n < 0 THEN <<45>> \o Decimal(0 - n)
    ELSE IF n < 10 THEN <<48 + n>>
    ELSE Decimal(n \div 10) \o <<48 + (n % 10)>>

\* The responses openai.Completion.create may return to the n-th call: the
\* candidates, and the fields the endpoint adds, with an id of the call's own.
Responses(n) ==
    {[choices |-> Choices(ts), created |-> Created,
      id |-> Codes("cmpl-") \o Decimal(n), model |-> Codes("text-davinci:002"),
      object |-> Codes("text_completion")] : ts \in TextSeqs}

\* The exceptions openai.Completion.create may raise: transport, authentication,
\* rate limit, malformed response.
CallErrors ==
    {"APIConnectionError", "AuthenticationError", "RateLimitError", "APIError"}

\* ------------------------------------------------------------------- state

VARIABLES
    env_key,     \* os.environ["OPENAI_API_KEY"], None when it is not set
    api_key,     \* openai.api_key
    key_writes,  \* how many times openai.api_key has been assigned
    pc,          \* where the kernel is: "start", "idle", "built", "waiting", "returned"
    cell,        \* execution_count of the cell being run or last run, 0 before any
    runs,        \* request-cell runs started so far
    request,     \* <<arguments>> of the current run's call, <<>> before any
    calls,       \* the arguments of every call of openai.Completion.create so far
    inflight,    \* calls made and not yet returned or failed
    outcome,     \* how the current run's call ended: "none" yet, "ok", or the exception
    response,    \* the notebook's global `response`: <<value>>, <<>> while unbound
    stdout,      \* what the current run has printed, one entry per print
    raised,      \* the exception that left the current run, "none" if none
    events,      \* the steps of the current run, in order
    ran,         \* the cell of every run started so far, in order
    received     \* <<response>> the current run's call returned, <<>> if none yet

vars ==
    <<env_key, api_key, key_writes, pc, cell, runs, request, calls, inflight,
      outcome, response, stdout, raised, events, ran, received>>

\* The number of completion requests issued so far.
issued == Len(calls)

\* ------------------------------------------------------ printing a response

\* The code point of the d-th hexadecimal digit, lower case.
HexDigit(d) == IF d < 10 THEN 48 + d ELSE 87 + d

\* '{0:04x}'.format(n), for n below 65536.
Hex4(n) ==
    <<HexDigit(n \div 4096), HexDigit((n \div 256) % 16),
      HexDigit((n \div 16) % 16), HexDigit(n % 16)>>

\* '\\u{0:04x}'.format(n).
UEscape(n) == <<92, 117>> \o Hex4(n)

\* json.dumps' escape (ensure_ascii) of the code point n: short escapes for
\* the double quote, the backslash, backspace, form feed, line break, carriage
\* return and tab; n itself from space to tilde; \uXXXX for every other code
\* point up to U+FFFF; the \uXXXX of the two UTF-16 surrogates above it.
JsonEscapeChar(n) ==
    CASE n = 34 -> <<92, 34>>
      [] n = 92 -> <<92, 92>>
      [] n = 10 -> <<92, 110>>
      [] n = 13 -> <<92, 114>>
      [] n = 9 -> <<92, 116>>
      [] n = 12 -> <<92, 102>>
      [] n = 8 -> <<92, 98>>
      [] OTHER ->
             IF n \in 32..126 THEN <<n>>
             ELSE IF n < 65536 THEN UEscape(n)
             ELSE UEscape(55296 + (((n - 65536) \div 1024) % 1024))
                      \o UEscape(56320 + ((n - 65536) % 1024))

\* json.dumps of a string's content.
RECURSIVE JsonEscape(_)
JsonEscape(t) ==
    IF Len(t) = 0 THEN <<>>
    ELSE JsonEscapeChar(t[1]) \o JsonEscape(SubSeq(t, 2, Len(t)))

\* json.dumps of a string.
JsonString(t) == <<34>> \o JsonEscape(t) \o <<34>>

\* One candidate as str(response) shows it: its four fields, keys sorted.
DumpChoice(ch) ==
    Codes("\n    {\n      \"finish_reason\": ") \o JsonString(ch.finish_reason)
        \o Codes(",\n      \"index\": ") \o Decimal(ch.index)
        \o Codes(",\n      \"logprobs\": ")
        \o (IF ch.logprobs = None THEN Codes("null") ELSE JsonString(ch.logprobs))
        \o Codes(",\n      \"text\": ") \o JsonString(ch.text) \o Codes("\n    }")

RECURSIVE DumpChoices(_)
DumpChoices(chs) ==
    IF Len(chs) = 0 THEN <<>>
    ELSE DumpChoice(Head(chs))
             \o (IF Len(chs) > 1 THEN <<44>> ELSE <<>>) \o DumpChoices(Tail(chs))

\* str(response): json.dumps(response, sort_keys=True, indent=2), the whole
\* response with every candidate and every field.
Dump(r) ==
    Codes("{\n  \"choices\": ")
        \o (IF Len(r.choices) = 0 THEN Codes("[]")
            ELSE <<91>> \o DumpChoices(r.choices) \o Codes("\n  ]"))
        \o Codes(",\n  \"created\": ") \o Decimal(r.created)
        \o Codes(",\n  \"id\": ") \o JsonString(r.id)
        \o Codes(",\n  \"model\": ") \o JsonString(r.model)
        \o Codes(",\n  \"object\": ") \o JsonString(r.object)
        \o Codes("\n}")

\* Extract with the last candidate taken instead of the first.
ExtractLast(resp) ==
    IF Len(resp) = 0 THEN [err |-> "NameError", text |-> <<>>]
    ELSE IF Len(resp[1].choices) = 0 THEN [err |-> "IndexError", text |-> <<>>]
    ELSE [err |-> "none", text |-> resp[1].choices[Len(resp[1].choices)].text]

\* Extract with .strip() applied to the text.
ExtractStripped(resp) ==
    IF Len(resp) = 0 THEN [err |-> "NameError", text |-> <<>>]
    ELSE IF Len(resp[1].choices) = 0 THEN [err |-> "IndexError", text |-> <<>>]
    ELSE [err |-> "none", text |-> StripText(resp[1].choices[1].text)]

\* Extract yielding None for an empty candidate list instead of raising.
ExtractSilent(resp) ==
    IF Len(resp) = 0 THEN [err |-> "NameError", text |-> <<>>]
    ELSE IF Len(resp[1].choices) = 0 THEN [err |-> "none", text |-> Codes("None")]
    ELSE [err |-> "none", text |-> resp[1].choices[1].text]

\* response["choices"][0]["text"] evaluated on the global `response`:
\* the first candidate's text, or the exception the expression raises.
Extract(resp) ==
    IF Len(resp) = 0 THEN [err |-> "NameError", text |-> <<>>]
    ELSE IF Len(resp[1].choices) = 0 THEN [err |-> "IndexError", text |-> <<>>]
    ELSE [err |-> "none", text |-> resp[1].choices[1].text]

\* What print(x) writes: str(x) and a line break.
Printed(x) == x \o <<10>>

\* ----------------------------------------------------------------- actions

Init ==
    /\ env_key \in {None, "sk-test"}
    /\ api_key = None
    /\ key_writes = 0
    /\ pc = "start"
    /\ cell = 0
    /\ runs = 0
    /\ request = <<>>
    /\ calls = <<>>
    /\ inflight = 0
    /\ outcome = "none"
    /\ response = <<>>
    /\ stdout = <<>>
    /\ raised = "none"
    /\ events = <<>>
    /\ ran = <<>>
    /\ received = <<>>

\* os.getenv("OPENAI_API_KEY"): the value, or None when the variable is not set.
GetEnv == env_key

\* The setup cell: openai.api_key = os.getenv("OPENAI_API_KEY").
Setup ==
    /\ pc = "start"
    /\ api_key' = GetEnv
    /\ key_writes' = key_writes + 1
    /\ cell' = SetupCell
    /\ raised' = "none"
    /\ pc' = "idle"
    /\ UNCHANGED <<env_key, ran, received, runs, request, calls, inflight, outcome, response,
                   stdout, events>>

\* Build with the credential read again at every cell.
BuildReloadsKey(c) ==
    /\ pc = "idle"
    /\ runs < MaxRuns
    /\ api_key' = GetEnv
    /\ key_writes' = key_writes + 1
    /\ cell' = c
    /\ runs' = runs + 1
    /\ ran' = Append(ran, c)
    /\ received' = <<>>
    /\ request' = <<Request(c)>>
    /\ outcome' = "none"
    /\ stdout' = <<>>
    /\ raised' = "none"
    /\ events' = <<"build">>
    /\ pc' = "built"
    /\ UNCHANGED <<env_key, calls, inflight, response>>

\* Build with the prompts sent so far put before the prompt of the cell.
BuildWithHistory(c) ==
    /\ pc = "idle"
    /\ runs < MaxRuns
    /\ cell' = c
    /\ runs' = runs + 1
    /\ ran' = Append(ran, c)
    /\ received' = <<>>
    /\ request' = <<[Request(c) EXCEPT
                       !.prompt = IF Len(calls) = 0 THEN @
                                  ELSE calls[Len(calls)].prompt \o @]>>
    /\ outcome' = "none"
    /\ stdout' = <<>>
    /\ raised' = "none"
    /\ events' = <<"build">>
    /\ pc' = "built"
    /\ UNCHANGED <<env_key, api_key, key_writes, calls, inflight, response>>

\* A request cell starts: the arguments of the call are evaluated.
Build(c) ==
    /\ pc = "idle"
    /\ runs < MaxRuns
    /\ cell' = c
    /\ runs' = runs + 1
    /\ ran' = Append(ran, c)
    /\ received' = <<>>
    /\ request' = <<Request(c)>>
    /\ outcome' = "none"
    /\ stdout' = <<>>
    /\ raised' = "none"
    /\ events' = <<"build">>
    /\ pc' = "built"
    /\ UNCHANGED <<env_key, api_key, key_writes, calls, inflight, response>>

\* Call reusing the response already held instead of asking again.
CallCached ==
    /\ pc = "built"
    /\ IF Len(response) = 1
       THEN /\ outcome' = "ok"
            /\ pc' = "returned"
            /\ UNCHANGED <<calls, inflight>>
       ELSE /\ calls' = Append(calls, request[1])
            /\ inflight' = inflight + 1
            /\ pc' = "waiting"
            /\ UNCHANGED outcome
    /\ events' = Append(events, "call")
    /\ UNCHANGED <<env_key, ran, received, api_key, key_writes, cell, runs, request, response,
                   stdout, raised>>

\* Call not waiting for the answer: the cell ends with the request in flight.
CallAsync ==
    /\ pc = "built"
    /\ calls' = Append(calls, request[1])
    /\ inflight' = inflight + 1
    /\ events' = Append(events, "call")
    /\ pc' = "idle"
    /\ UNCHANGED <<env_key, ran, received, api_key, key_writes, cell, runs, request, outcome,
                   response, stdout, raised>>

\* openai.Completion.create(...) is called and blocks the kernel.
Call ==
    /\ pc = "built"
    /\ calls' = Append(calls, request[1])
    /\ inflight' = inflight + 1
    /\ events' = Append(events, "call")
    /\ pc' = "waiting"
    /\ UNCHANGED <<env_key, ran, received, api_key, key_writes, cell, runs, request, outcome,
                   response, stdout, raised>>

\* The call returns r, which is assigned to `response`. What the client does
\* with the credential it is given is not the notebook's code: a call may
\* return or fail whatever openai.api_key holds.
Return ==
    \E r \in Responses(Len(calls)) :
        /\ pc = "waiting"
        /\ response' = <<r>>
        /\ received' = <<r>>
        /\ outcome' = "ok"
        /\ inflight' = inflight - 1
        /\ pc' = "returned"
        /\ UNCHANGED <<env_key, ran, api_key, key_writes, cell, runs, request, calls,
                       stdout, raised, events>>

\* Raise with the exception caught around the call: the cell goes on to print.
RaiseSwallowed ==
    \E e \in CallErrors :
        /\ pc = "waiting"
        /\ outcome' = e
        /\ inflight' = inflight - 1
        /\ pc' = "returned"
        /\ UNCHANGED <<env_key, ran, received, api_key, key_writes, cell, runs, request, calls,
                       response, stdout, raised, events>>

\* The call raises e: the assignment and the print of the cell are skipped and
\* the exception leaves the cell.
Raise ==
    \E e \in CallErrors :
        /\ pc = "waiting"
        /\ outcome' = e
        /\ raised' = e
        /\ inflight' = inflight - 1
        /\ pc' = "idle"
        /\ UNCHANGED <<env_key, ran, received, api_key, key_writes, cell, runs, request, calls,
                       response, stdout, events>>

\* What the cell's print is given: the whole response in the connectivity test,
\* response["choices"][0]["text"] in the trend cells.
Shown ==
    IF cell = TestCell
    THEN (IF Len(response) = 0
          THEN [err |-> "NameError", text |-> <<>>]
          ELSE [err |-> "none", text |-> Dump(response[1])])
    ELSE Extract(response)

\* Display placed before the call: the cell prints, then asks.
DisplayBeforeCall ==
    /\ pc = "built"
    /\ Len(events) = 1
    /\ stdout' = Append(stdout, Printed(Shown.text))
    /\ events' = Append(events, "display")
    /\ UNCHANGED <<env_key, ran, received, api_key, key_writes, pc, cell, runs, request, calls,
                   inflight, outcome, response, raised>>

\* The cell's print. When its argument raises, nothing is printed and the
\* exception leaves the cell.
Display ==
    /\ pc = "returned"
    /\ IF Shown.err = "none"
       THEN /\ stdout' = Append(stdout, Printed(Shown.text))
            /\ events' = Append(events, "display")
            /\ UNCHANGED raised
       ELSE /\ raised' = Shown.err
            /\ UNCHANGED <<stdout, events>>
    /\ pc' = "idle"
    /\ UNCHANGED <<env_key, ran, received, api_key, key_writes, cell, runs, request, calls,
                   inflight, outcome, response>>

Next ==
    \/ Setup
    \/ \E c \in RequestCells : Build(c)
    \/ Call
    \/ Return
    \/ Raise
    \/ Display

Spec == Init /\ [][Next]_vars

\* ------------------------------------------------------------------ claims

\* The current run is over and its call returned a response (now in `response`).
Returned == pc = "idle" /\ cell \in RequestCells /\ outcome = "ok"

\* The text of candidate 0 of the global `response`.
FirstText == response[1].choices[1].text

\* C1: when a trend cell's call returned a response with at least one
\* candidate, the cell ends without an exception having printed exactly the
\* text of candidate 0 (as print writes it), and any response with the same
\* candidate 0, whatever its other candidates, extracts to that same text.
C1_FirstCandidateOnly ==
    (Returned /\ cell \in TrendCells /\ Len(response[1].choices) >= 1) =>
        /\ raised = "none"
        /\ stdout = <<Printed(FirstText)>>
        /\ \A r \in Responses(Len(calls)) :
               (Len(r.choices) >= 1 /\ r.choices[1] = response[1].choices[1])
                   => Extract(<<r>>) = [err |-> "none", text |-> FirstText]

\* A trend cell has printed candidate 0 of a response whose candidate 1 differs.
C1_Witness ==
    /\ Returned /\ cell \in TrendCells
    /\ Len(response[1].choices) = 2
    /\ response[1].choices[2].text # FirstText
    /\ stdout = <<Printed(FirstText)>>

\* C2 as stated: what a request cell displays for a response with a candidate
\* is the first candidate's text with leading and trailing whitespace removed.
C2_Trimmed ==
    (Returned /\ Len(response[1].choices) >= 1) =>
        stdout = <<Printed(StripText(FirstText))>>

\* C2 amended: what result extraction yields, and a trend cell displays, is
\* the first candidate's text unchanged, leading and trailing whitespace kept:
\* as many characters are displayed as the text has, and "\n\nThis is a test"
\* is displayed as "\n\nThis is a test".
C2_Untrimmed ==
    (Returned /\ cell \in TrendCells /\ Len(response[1].choices) >= 1) =>
        /\ stdout = <<Printed(FirstText)>>
        /\ Len(stdout[1]) = Len(FirstText) + 1
        /\ FirstText = Codes("\n\nThis is a test")
               => stdout = <<Codes("\n\nThis is a test\n")>>

\* A trend cell has displayed "\n\nThis is a test" with its line breaks.
C2_Witness ==
    /\ Returned /\ cell \in TrendCells
    /\ Len(response[1].choices) = 1
    /\ FirstText = Codes("\n\nThis is a test")
    /\ StripText(FirstText) = Codes("This is a test")
    /\ stdout = <<Codes("\n\nThis is a test\n")>>

\* C3: when a trend cell's call returned a response with no candidate, the
\* cell ends in an exception (IndexError, raised by the subscript [0]) and has
\* displayed nothing.
C3_EmptyResponseFails ==
    (Returned /\ cell \in TrendCells /\ Len(response[1].choices) = 0) =>
        /\ raised = "IndexError"
        /\ stdout = <<>>
        /\ events = <<"build", "call">>

\* A trend cell ended in IndexError on a response with no candidate.
C3_Witness ==
    /\ Returned /\ cell \in TrendCells
    /\ Len(response[1].choices) = 0
    /\ raised = "IndexError"

\* C4 as stated: with the credential absent, startup ends in a configuration
\* error and no completion request is ever issued.
C4_FatalAtStartup ==
    (env_key = None /\ pc # "start") =>
        /\ raised = "ConfigurationError"
        /\ issued = 0

\* With the credential absent, startup ended without an error, None is the
\* credential, and a completion request has been issued.
C4_Witness ==
    /\ env_key = None /\ api_key = None
    /\ key_writes = 1
    /\ pc = "waiting"
    /\ raised = "none"
    /\ issued >= 1

\* s is a prefix of t.
IsPrefix(s, t) == Len(s) <= Len(t) /\ SubSeq(t, 1, Len(s)) = s

\* C5: the steps of a run are, in this order and at most once each, build,
\* call, display; a run that ends without an exception has made all three;
\* nothing is displayed while the call is pending, and a display is the last
\* step of its run.
C5_LinearOrder ==
    /\ IsPrefix(events, <<"build", "call", "display">>)
    /\ pc \in {"built", "waiting", "returned"} => stdout = <<>>
    /\ Len(events) = 3 => (pc = "idle" /\ inflight = 0 /\ outcome = "ok")
    /\ (pc = "idle" /\ cell \in RequestCells /\ raised = "none")
           => events = <<"build", "call", "display">>
    /\ Len(stdout) = (IF Len(events) = 3 THEN 1 ELSE 0)

\* A run has ended having built, called and displayed.
C5_Witness ==
    /\ pc = "idle" /\ cell \in RequestCells
    /\ events = <<"build", "call", "display">>
    /\ Len(stdout) = 1

\* C6: when the call of a run fails, the run is over at once: the exception
\* that leaves the cell is the one the call raised, nothing has been displayed,
\* and the run made exactly one call.
C6_FailureAborts ==
    outcome \in CallErrors =>
        /\ pc = "idle"
        /\ raised = outcome
        /\ stdout = <<>>
        /\ events = <<"build", "call">>
        /\ issued = runs
        /\ inflight = 0

\* A run with a credential ended in a rate-limit failure.
C6_Witness ==
    /\ api_key # None
    /\ pc = "idle" /\ cell \in RequestCells
    /\ outcome = "RateLimitError" /\ raised = "RateLimitError"

\* C7: between runs, as many completion requests have been issued as runs
\* were started, whatever the prompts were; within a run the request is issued
\* by the call step.
C7_OneRequestPerRun ==
    /\ pc \in {"idle", "waiting", "returned"} => issued = runs
    /\ pc = "built" => issued = runs - 1
    /\ pc = "start" => issued = 0

\* Two runs of the same cell have issued two identical requests.
C7_Witness ==
    /\ pc = "idle" /\ runs = 2
    /\ Len(calls) = 2
    /\ calls[1] = calls[2]

\* C8: at most one completion request is in flight, it is in flight exactly
\* while the kernel is blocked in the call, and a run starts only with none
\* in flight.
C8_OneInFlight ==
    /\ inflight \in {0, 1}
    /\ inflight = 1 <=> pc = "waiting"
    /\ pc = "built" => inflight = 0

\* The second request of a behaviour is in flight.
C8_Witness ==
    /\ inflight = 1
    /\ issued = 2

\* C9: once the setup cell has run, openai.api_key has been assigned exactly
\* once and no later step assigns or changes it.
C9_CredentialWrittenOnce ==
    /\ [](pc # "start" => (key_writes = 1 /\ api_key = env_key))
    /\ [][pc # "start" => (api_key' = api_key /\ key_writes' = key_writes)]_vars

\* Two runs are over, one failed and one displayed, and the credential has
\* been assigned once.
C9_Witness ==
    /\ pc = "idle" /\ runs = 2
    /\ Len(stdout) = 1
    /\ key_writes = 1 /\ api_key = "sk-test"

\* The series of the zero-example cell, as the claim spells it.
Series == "132, 329, 583, 743, 966, 1123, 1298"

\* C10 as stated: the prompt of the zero-example cell contains the series and
\* ends with the label "Trend:" with nothing but whitespace after it.
C10_EndsWithTrendLabel ==
    (cell = ZeroShotCell /\ Len(request) = 1) =>
        /\ Contains(request[1].prompt, Series)
        /\ EndsWith(RStrip(request[1].prompt), "Trend:")

\* C10 amended: the prompt of the zero-example cell is the instruction with
\* the series inside it: it contains "132, 329, 583, 743, 966, 1123, 1298",
\* ends with "in one sentence" and holds no "Trend:" label; the prompts with
\* examples are the ones that end with the label "Trend: " and a line break.
C10_ZeroShotPrompt ==
    /\ (cell = ZeroShotCell /\ Len(request) = 1) =>
           /\ Contains(request[1].prompt, Series)
           /\ StartsWith(request[1].prompt,
                         "Summarize the trend of the list of numbers ")
           /\ EndsWith(request[1].prompt, " in one sentence")
           /\ ~Contains(request[1].prompt, "Trend:")
    /\ (cell \in (ZeroShotCell + 1)..LastCell /\ Len(request) = 1) =>
           EndsWith(request[1].prompt, "\nTrend: \n")

\* The zero-example request has been issued.
C10_Witness ==
    /\ cell = ZeroShotCell /\ pc = "waiting"
    /\ Len(calls) >= 1
    /\ calls[Len(calls)].prompt = ZeroShotPrompt
    /\ Contains(calls[Len(calls)].prompt, Series)

\* The day letters, Monday to Sunday.
DayLetters == <<"M", "T", "W", "T", "F", "S", "S">>

\* "M: v1, T: v2, ..." from position i on: each letter right before its value.
RECURSIVE LabelledFrom(_, _)
LabelledFrom(vals, i) ==
    IF i > Len(vals) THEN ""
    ELSE DayLetters[i] \o ": " \o ToString(vals[i])
             \o (IF i < Len(vals) THEN ", " ELSE "")
             \o LabelledFrom(vals, i + 1)

\* A series line in day-letter mode.
DayLine(vals) == "Numbers: " \o LabelledFrom(vals, 1)

\* The positions of s at which a line starts.
LineStarts(s) ==
    {i \in 1..Len(s) : i = 1 \/ Char(s, i - 1) = "\n"}

\* The line of s starting at position i, without its line break.
LineAt(s, i) ==
    LET ends == {j \in i..Len(s) : Char(s, j) = "\n"}
    IN  IF ends = {} THEN SubSeq(s, i, Len(s))
        ELSE SubSeq(s, i, (CHOOSE j \in ends : \A k \in ends : j <= k) - 1)

\* The series lines of a prompt, in the order they appear.
IsSeriesLine(l) == StartsWith(l, "Numbers: ")
SeriesLines(p) ==
    LET starts == {i \in LineStarts(p) : IsSeriesLine(LineAt(p, i))}
        order == CHOOSE f \in [1..Cardinality(starts) -> starts] :
                     \A a, b \in 1..Cardinality(starts) : a < b => f[a] < f[b]
    IN  [k \in 1..Cardinality(starts) |-> LineAt(p, order[k])]

\* The series of the three examples and the target of the claim.
ThreeExamples ==
    << <<132, 329, 583, 743, 966, 1123, 1298>>,
       <<300, 323, 293, 313, 341, 301, 329>>,
       <<7, 8, 11, 9, 218, 8, 8>> >>
OutlierTarget == <<55, 54, 57, 5643, 56, 55, 54>>

\* C11: the prompt of the first day-letter cell has four series lines, the
\* three examples' and then the target's [55, 54, 57, 5643, 56, 55, 54], and
\* each of them is its seven values in order, the i-th preceded by the i-th of
\* the letters M, T, W, T, F, S, S.
C11_DayLettersByPosition ==
    (cell = DayLetterCell /\ Len(request) = 1) =>
        SeriesLines(request[1].prompt) =
            <<DayLine(ThreeExamples[1]), DayLine(ThreeExamples[2]),
              DayLine(ThreeExamples[3]), DayLine(OutlierTarget)>>

\* The day-letter request with the outlier under the second T has been issued.
C11_Witness ==
    /\ cell = DayLetterCell /\ pc = "waiting"
    /\ Len(calls) >= 1
    /\ Contains(calls[Len(calls)].prompt, "W: 57, T: 5643, F: 56")
    /\ Len(SeriesLines(calls[Len(calls)].prompt)) = 4

\* C12: the prompt a run sends is the prompt of its cell, whatever happened
\* before: any two requests issued by runs of the same cell carry the same
\* prompt string, character for character.
C12_PromptDeterministic ==
    /\ Len(calls) <= Len(ran)
    /\ \A i, j \in 1..Len(calls) :
           ran[i] = ran[j] => calls[i].prompt = calls[j].prompt
    /\ Len(request) = 1 => request[1].prompt = Prompt(cell)

\* The same cell has issued its request twice, the second time after a
\* response had been received and displayed.
C12_Witness ==
    /\ Len(calls) = 2 /\ Len(ran) = 2
    /\ ran[1] = ran[2]
    /\ calls[1].prompt = calls[2].prompt
    /\ Len(response) = 1 /\ Len(response[1].choices) >= 1
    /\ pc = "waiting"

\* C13: every request issued carries temperature 0 and engine
\* "text-davinci-002"; max_tokens is 36 on every trend request and 6 on the
\* connectivity test only.
C13_FixedParameters ==
    \A i \in 1..Len(calls) :
        /\ calls[i].temperature = 0
        /\ calls[i].engine = "text-davinci-002"
        /\ calls[i].max_tokens = (IF ran[i] = TestCell THEN 6 ELSE 36)

\* A trend request has been issued after the connectivity test was answered.
C13_Witness ==
    /\ Len(calls) = 2
    /\ ran[1] = TestCell /\ ran[2] \in TrendCells
    /\ Len(response) = 1
    /\ calls[1].max_tokens = 6 /\ calls[2].max_tokens = 36
    /\ calls[2].prompt # calls[1].prompt

\* C14: a run that has displayed something is a run whose own call returned,
\* and the value `response` holds is the response that call returned; what a
\* trend cell has displayed is the first candidate's text of that response; a
\* run whose call returned nothing displays nothing, even when `response`
\* still holds the response of an earlier run.
C14_DisplaysOwnResponse ==
    /\ Len(stdout) > 0 =>
           /\ outcome = "ok"
           /\ Len(received) = 1
           /\ response = received
           /\ cell \in TrendCells =>
                  /\ Len(received[1].choices) >= 1
                  /\ stdout = <<Printed(received[1].choices[1].text)>>
    /\ Len(received) = 0 => stdout = <<>>

\* The second run's call failed while `response` held the first run's
\* response, and the run displayed nothing.
C14_Witness ==
    /\ pc = "idle" /\ runs = 2
    /\ outcome \in CallErrors
    /\ Len(response) = 1 /\ Len(response[1].choices) >= 1
    /\ Len(received) = 0
    /\ stdout = <<>>

====
